---------------------------- MODULE Spec2Model ----------------------------
(***************************************************************************)
(* SpatialCheckProMax AI training pipeline                                 *)
(* (src/AI_Engine/training/ai_training_pipeline.py, train_with_fgdb.py).    *)
(*                                                                         *)
(* Three specifications over one set of variables:                         *)
(*   Spec       the Trainer (train loop, checkpoint save/load, the files   *)
(*              of the save directory);                                    *)
(*   SynthSpec  the noise/error synthesizer as pure functions of a drawn   *)
(*              geometry and drawn random numbers;                         *)
(*   StoreSpec  the two sample stores (construction, len, getitem).        *)
(* Variables that a specification does not use keep their initial value.   *)
(***************************************************************************)
EXTENDS Integers, Sequences, FiniteSets, TLC

(***************************************************************************)
(* Bounds of the model                                                     *)
(***************************************************************************)
\* epochs a trainer process may run in total when the loaders are "rich"
MaxEpochs == 3
\* epochs of the single long run (reaches the periodic checkpoint)
MaxLongEpochs == 12
\* finite epoch losses are 1..MaxLoss
MaxLoss == 2
\* direct save_checkpoint / load_checkpoint calls by the caller
MaxUserOps == 2
\* config["epochs"] of the trainers of the model
ConfigEpochs == 2

(***************************************************************************)
(* Program constants                                                       *)
(***************************************************************************)
\* (epoch + 1) % 10 == 0
CheckpointPeriod == 10

(***************************************************************************)
(* Losses: finite losses are positive integers; float('inf') and NaN are   *)
(* two further values.  Every comparison with NaN is false.                *)
(***************************************************************************)
FiniteLosses == 1..MaxLoss
Inf == MaxLoss + 1
NaN == 0 - 1
None == 0 - 2

IsFinite(x) == x \in FiniteLosses

\* Python's  a < b  on floats
LessOrEqual(a, b) == a # NaN /\ b # NaN /\ a <= b
LessThanOrdered(a, b) == a < b
LessThan(a, b) == a # NaN /\ b # NaN /\ a < b

RECURSIVE MinOf(_)
MinOf(s) ==
    IF Len(s) = 1 THEN s[1]
    ELSE LET m == MinOf(Tail(s)) IN IF s[1] < m THEN s[1] ELSE m

Last(s) == s[Len(s)]

(***************************************************************************)
(* Trainer state                                                           *)
(***************************************************************************)
VARIABLES
    pc,             \* position of the trainer process
    epoch,          \* loop variable of Trainer.train (0-based)
    epochs,         \* resolved epoch count of the running train()
    hasVal,         \* val_loader is not None
    cfg_epochs,     \* config["epochs"]
    weights,        \* model.state_dict(), abstracted to a version number
    opt_state,      \* optimizer.state_dict(), abstracted to a step count
    sched_steps,    \* scheduler.step() calls
    best_loss,      \* self.best_loss
    train_history,  \* self.train_history (the "loss" of each entry)
    val_history,    \* self.val_history
    train_metrics,  \* train_metrics["loss"] of the current epoch
    val_metrics,    \* val_metrics["loss"] of the current epoch, or None
    files,          \* the save directory: file name -> file
    saving,         \* the file torch.save is writing, or NoName
    ret,            \* where the process continues after the save
    loader,         \* the losses the train / validation loader can produce
    budget,         \* epochs left (bound)
    trainer,        \* which Trainer object this is: "first" or "second"
    trained,        \* train() has been called on this Trainer
    userops,        \* direct save/load calls left (bound)
    hist            \* history variables, read by the properties only

(***************************************************************************)
(* Synthesizer and sample-store state                                      *)
(***************************************************************************)
VARIABLES
    synth,          \* the synthesizer call under test and its result
    store,          \* the sample store under construction / constructed
    item,           \* the result of the last __len__ / __getitem__
    net             \* the network / loss call under test and its result

vars == << pc, epoch, epochs, hasVal, cfg_epochs, weights, opt_state,
           sched_steps, best_loss, train_history, val_history, train_metrics,
           val_metrics, files, saving, ret, loader, budget, trainer, trained,
           userops, hist, synth, store, item, net >>

trainerVars == << pc, epoch, epochs, hasVal, cfg_epochs, weights, opt_state,
           sched_steps, best_loss, train_history, val_history, train_metrics,
           val_metrics, files, saving, ret, loader, budget, trainer, trained,
           userops, hist >>

dataVars == << synth, store, item, net >>


(***************************************************************************)
(* The save directory.  A file name is <<stem, k>>: best_model.pt is       *)
(* <<"best_model", 0>>, model_epoch_<k>.pt is <<"model_epoch", k>>.  A file *)
(* is complete (it holds a whole checkpoint) or partial (torch.save has    *)
(* opened it for writing and has not closed it).                           *)
(***************************************************************************)
BestModel == << "best_model", 0 >>
EpochFile(k) == << "model_epoch", k >>
UserFile == << "user_checkpoint", 0 >>
NoName == << "", 0 >>

Exists(f) == f \in DOMAIN files
IsComplete(f) == Exists(f) /\ files[f].complete
IsPartial(f) == Exists(f) /\ ~files[f].complete

\* the dict built by save_checkpoint
CheckpointSwapped ==
    [ model_state_dict     |-> weights,
      optimizer_state_dict |-> opt_state,
      config               |-> cfg_epochs,
      best_loss            |-> best_loss,
      train_history        |-> val_history,
      val_history          |-> train_history ]
CheckpointStaleBest ==
    [ model_state_dict     |-> weights,
      optimizer_state_dict |-> opt_state,
      config               |-> cfg_epochs,
      best_loss            |-> hist.prev_best,
      train_history        |-> train_history,
      val_history          |-> val_history ]
Checkpoint ==
    [ model_state_dict     |-> weights,
      optimizer_state_dict |-> opt_state,
      config               |-> cfg_epochs,
      best_loss            |-> best_loss,
      train_history        |-> train_history,
      val_history          |-> val_history ]

\* what the properties remember of the trainer at the time of a save
Snapshot ==
    [ weights |-> weights, best_loss |-> best_loss,
      train_history |-> train_history, val_history |-> val_history ]

\* torch.save(checkpoint, path) opens path for writing, which truncates it
PartialFile == [ complete |-> FALSE ]
CompleteFile(c) == [ complete |-> TRUE, ckpt |-> c ]

Put(fs, f, v) == [ g \in (DOMAIN fs) \cup {f} |-> IF g = f THEN v ELSE fs[g] ]

(***************************************************************************)
(* Loaders.  What a loader contributes to the trainer is the loss an epoch *)
(* over it reports; the numeric work (forward, backward, optimizer step)   *)
(* is abstracted to a choice among the losses the loader can produce.      *)
(* A "rich" loader can produce every finite loss and NaN, and the model    *)
(* runs it for MaxEpochs epochs in all, over two Trainers and with direct  *)
(* save/load calls; a "long" loader produces two losses, and the model     *)
(* runs it for MaxLongEpochs epochs in one train() call of one Trainer.    *)
(* Either the training or the validation loss varies; the other is fixed.  *)
(***************************************************************************)
AllLosses == FiniteLosses \cup {NaN}
LongLosses == {1, 2}
Loaders ==
    { [ rich |-> TRUE,  train |-> AllLosses,  val |-> {1} ],
      [ rich |-> TRUE,  train |-> {2},        val |-> AllLosses ],
      [ rich |-> FALSE, train |-> LongLosses, val |-> {1} ],
      [ rich |-> FALSE, train |-> {2},        val |-> LongLosses ],
      [ rich |-> FALSE, train |-> {1, NaN},   val |-> {1} ] }

NoArg == None

\* epochs = epochs or self.config.get("epochs", 100)
ResolveEpochsNoneOnly(arg) == IF arg = NoArg THEN cfg_epochs ELSE arg
ResolveEpochs(arg) == IF arg = NoArg \/ arg = 0 THEN cfg_epochs ELSE arg

\* the epochs arguments train() is called with
EpochArgs == {NoArg} \cup (0..MaxEpochs) \cup {MaxLongEpochs}

Idle == pc \in {"init", "done", "idle"}

\* what the properties remember of a load_checkpoint that precedes train()
NotResumed == [ loaded |-> FALSE ]

FreshHist ==
    [ fresh |-> TRUE, tracked |-> << >>, prev_best |-> Inf, written |-> {},
      saved |-> hist.saved, lastop |-> << "construct", NoName >>,
      order |-> << >>, resume |-> NotResumed ]

TrainerInit ==
    /\ pc = "init"
    /\ epoch = 0
    /\ epochs = 0
    /\ hasVal = FALSE
    /\ cfg_epochs = ConfigEpochs
    /\ weights = 0
    /\ opt_state = 0
    /\ sched_steps = 0
    /\ best_loss = Inf
    /\ train_history = << >>
    /\ val_history = << >>
    /\ train_metrics = None
    /\ val_metrics = None
    /\ files = << >>
    /\ saving = NoName
    /\ ret = "init"
    /\ loader \in Loaders
    /\ budget = IF loader.rich THEN MaxEpochs ELSE MaxLongEpochs
    /\ trainer = "first"
    /\ trained = FALSE
    /\ userops = IF loader.rich THEN MaxUserOps ELSE 0
    /\ hist = [ fresh |-> TRUE, tracked |-> << >>, prev_best |-> Inf,
                written |-> {}, saved |-> << >>,
                lastop |-> << "construct", NoName >>, order |-> << >>,
                resume |-> NotResumed ]

DataIdle ==
    /\ synth = [ op |-> "none", geometry |-> << >>, result |-> [ ok |-> FALSE ] ]
    /\ store = [ kind |-> "none" ]
    /\ item = [ op |-> "none" ]
    /\ net = [ op |-> "none" ]

(***************************************************************************)
(* Trainer.__init__: a new Trainer over the same save directory.  The      *)
(* caller passes a model: the one it trained before (train_with_fgdb.py    *)
(* passes the phase-1 model to phase 2) or a new one.  After a kill the    *)
(* process is new, and so is the model.                                    *)
(***************************************************************************)
NewTrainer ==
    /\ UNCHANGED dataVars
    /\ pc \in {"init", "done", "idle", "crashed"}
    /\ trainer = "first"
    /\ loader.rich
    /\ trainer' = "second"
    /\ trained' = FALSE
    /\ \E keep \in BOOLEAN :
          /\ (pc = "crashed") => ~keep
          /\ weights' = IF keep THEN weights ELSE 0
    /\ opt_state' = 0
    /\ sched_steps' = 0
    /\ best_loss' = Inf
    /\ train_history' = << >>
    /\ val_history' = << >>
    /\ train_metrics' = None
    /\ val_metrics' = None
    /\ pc' = "init"
    /\ epoch' = 0
    /\ epochs' = 0
    /\ saving' = NoName
    /\ ret' = "init"
    /\ hist' = FreshHist
    /\ UNCHANGED << hasVal, cfg_epochs, files, loader, budget, userops >>

(***************************************************************************)
(* Trainer.train, entry: resolves the epoch count and enters the loop.     *)
(***************************************************************************)
StartTrain ==
    /\ UNCHANGED dataVars
    /\ Idle
    /\ ~trained
    /\ \E arg \in EpochArgs, val \in BOOLEAN :
          /\ ResolveEpochs(arg) <= budget
          /\ epochs' = ResolveEpochs(arg)
          /\ hasVal' = val
          /\ pc' = IF ResolveEpochs(arg) > 0 THEN "train_epoch" ELSE "done"
          /\ hist' = [ hist EXCEPT !.lastop = << "train", << "arg", arg >> >>,
                                   !.written = {}, !.order = << >> ]
    /\ epoch' = 0
    /\ trained' = TRUE
    /\ UNCHANGED << cfg_epochs, weights, opt_state, sched_steps, best_loss,
                    train_history, val_history, train_metrics, val_metrics,
                    files, saving, ret, loader, budget, trainer, userops >>


(***************************************************************************)
(* Trainer.train, one epoch.  The loop body is four steps in program       *)
(* order; a save_checkpoint inside a step is the two steps of torch.save   *)
(* (open the path, then write and close it).                               *)
(***************************************************************************)
Step(name) == [ hist EXCEPT !.order = Append(hist.order, name) ]

\* if val_loader is not None: ... (line 721)
AfterTrainSkipVal == "ckpt_improved"
AfterTrain == IF hasVal THEN "validate" ELSE "ckpt_improved"

\* train_metrics = self.train_epoch(train_loader); self.train_history.append
TrainEpoch ==
    /\ UNCHANGED dataVars
    /\ pc = "train_epoch"
    /\ budget > 0
    /\ \E l \in loader.train :
          /\ train_metrics' = l
          /\ train_history' = Append(train_history, l)
    /\ weights' = weights + 1
    /\ opt_state' = opt_state + 1
    /\ val_metrics' = None
    /\ budget' = budget - 1
    /\ pc' = AfterTrain
    /\ hist' = [ hist EXCEPT !.order = << "TrainEpoch" >>, !.written = {},
                             !.prev_best = best_loss ]
    /\ UNCHANGED << epoch, epochs, hasVal, cfg_epochs, sched_steps, best_loss,
                    val_history, files, saving, ret, loader, trainer, trained,
                    userops >>

\* Trainer.validate: @torch.no_grad(), model.eval(); no optimizer call
ValidateEpochStepping ==
    /\ UNCHANGED dataVars
    /\ pc = "validate"
    /\ \E l \in loader.val :
          /\ val_metrics' = l
          /\ val_history' = Append(val_history, l)
    /\ weights' = weights + 1
    /\ opt_state' = opt_state + 1
    /\ pc' = "ckpt_improved"
    /\ hist' = Step("ValidateEpoch")
    /\ UNCHANGED << epoch, epochs, hasVal, cfg_epochs,
                    sched_steps, best_loss, train_history, train_metrics,
                    files, saving, ret, loader, budget, trainer, trained,
                    userops >>
ValidateEpoch ==
    /\ UNCHANGED dataVars
    /\ pc = "validate"
    /\ \E l \in loader.val :
          /\ val_metrics' = l
          /\ val_history' = Append(val_history, l)
    /\ pc' = "ckpt_improved"
    /\ hist' = Step("ValidateEpoch")
    /\ UNCHANGED << epoch, epochs, hasVal, cfg_epochs, weights, opt_state,
                    sched_steps, best_loss, train_history, train_metrics,
                    files, saving, ret, loader, budget, trainer, trained,
                    userops >>

\* current_loss = val_metrics["loss"] if val_metrics else train_metrics["loss"]
TrackedLossTrainOnly == train_metrics
TrackedLoss == IF val_metrics # None THEN val_metrics ELSE train_metrics

\* if current_loss < self.best_loss
ImprovedAlways(cur) == cur # NaN
Improved(cur) == LessThan(cur, best_loss)

\* scheduler.step(); the log line; the improved-loss checkpoint
CheckpointIfImproved ==
    /\ UNCHANGED dataVars
    /\ pc = "ckpt_improved"
    /\ sched_steps' = sched_steps + 1
    /\ LET cur == TrackedLoss IN
          /\ hist' = [ hist EXCEPT !.order = Append(hist.order, "CheckpointIfImproved"),
                                   !.tracked = Append(hist.tracked, cur) ]
          /\ IF Improved(cur)
             THEN /\ best_loss' = cur
                  /\ files' = Put(files, BestModel, PartialFile)
                  /\ saving' = BestModel
                  /\ ret' = "ckpt_periodic"
                  /\ pc' = "saving"
             ELSE /\ pc' = "ckpt_periodic"
                  /\ UNCHANGED << best_loss, files, saving, ret >>
    /\ UNCHANGED << epoch, epochs, hasVal, cfg_epochs, weights, opt_state,
                    train_history, val_history, train_metrics, val_metrics,
                    loader, budget, trainer, trained, userops >>

\* if (epoch + 1) % 10 == 0
PeriodicDueZeroBased(e) == e % CheckpointPeriod = 0
PeriodicDue(e) == (e + 1) % CheckpointPeriod = 0

\* for epoch in range(epochs): the position after the loop body
AfterEpoch(e) == IF e + 1 < epochs THEN "train_epoch" ELSE "done"

\* the periodic checkpoint, then the next iteration or the end of train()
CheckpointIfPeriodic ==
    /\ UNCHANGED dataVars
    /\ pc = "ckpt_periodic"
    /\ epoch' = epoch + 1
    /\ hist' = Step("CheckpointIfPeriodic")
    /\ IF PeriodicDue(epoch)
       THEN /\ files' = Put(files, EpochFile(epoch + 1), PartialFile)
            /\ saving' = EpochFile(epoch + 1)
            /\ ret' = AfterEpoch(epoch)
            /\ pc' = "saving"
       ELSE /\ pc' = AfterEpoch(epoch)
            /\ UNCHANGED << files, saving, ret >>
    /\ UNCHANGED << epochs, hasVal, cfg_epochs, weights, opt_state,
                    sched_steps, best_loss, train_history, val_history,
                    train_metrics, val_metrics, loader, budget, trainer,
                    trained, userops >>

(***************************************************************************)
(* save_checkpoint: torch.save(checkpoint, self.save_dir / filename)       *)
(* writes to the target path itself.  SaveFinish is the write and close;   *)
(* the open happened in the step that called save_checkpoint.              *)
(***************************************************************************)
SaveFinish ==
    /\ UNCHANGED dataVars
    /\ pc = "saving"
    /\ files' = Put(files, saving, CompleteFile(Checkpoint))
    /\ pc' = ret
    /\ saving' = NoName
    /\ hist' = [ hist EXCEPT !.written = hist.written \cup {saving},
                             !.saved = Put(hist.saved, saving, Snapshot) ]
    /\ UNCHANGED << epoch, epochs, hasVal, cfg_epochs, weights, opt_state,
                    sched_steps, best_loss, train_history, val_history,
                    train_metrics, val_metrics, ret, loader, budget, trainer,
                    trained, userops >>

\* the process is killed while torch.save is writing
KillDuringSave ==
    /\ UNCHANGED dataVars
    /\ pc = "saving"
    /\ pc' = "crashed"
    /\ saving' = NoName
    /\ UNCHANGED << epoch, epochs, hasVal, cfg_epochs, weights, opt_state,
                    sched_steps, best_loss, train_history, val_history,
                    train_metrics, val_metrics, files, ret, loader, budget,
                    trainer, trained, userops, hist >>

\* a direct call of save_checkpoint by the caller of the Trainer
UserSave ==
    /\ UNCHANGED dataVars
    /\ Idle
    /\ userops > 0
    /\ userops' = userops - 1
    /\ files' = Put(files, UserFile, PartialFile)
    /\ saving' = UserFile
    /\ ret' = "idle"
    /\ pc' = "saving"
    /\ hist' = [ hist EXCEPT !.lastop = << "save", UserFile >> ]
    /\ UNCHANGED << epoch, epochs, hasVal, cfg_epochs, weights, opt_state,
                    sched_steps, best_loss, train_history, val_history,
                    train_metrics, val_metrics, loader, budget, trainer,
                    trained >>

(***************************************************************************)
(* load_checkpoint(filepath): torch.load fails on a partial file.          *)
(***************************************************************************)
LoadedHistoriesSwapped(c) == << c.val_history, c.train_history >>
LoadedHistories(c) == << c.train_history, c.val_history >>

\* self.best_loss = checkpoint.get("best_loss", float("inf"))
LoadedBestLossFresh(c) == Inf
LoadedBestLoss(c) == c.best_loss

LoadCheckpoint ==
    /\ UNCHANGED dataVars
    /\ Idle
    /\ userops > 0
    /\ userops' = userops - 1
    /\ \E f \in DOMAIN files :
          /\ files[f].complete
          /\ LET c == files[f].ckpt IN
                /\ weights' = c.model_state_dict
                /\ opt_state' = c.optimizer_state_dict
                /\ best_loss' = LoadedBestLoss(c)
                /\ train_history' = LoadedHistories(c)[1]
                /\ val_history' = LoadedHistories(c)[2]
                /\ hist' = [ hist EXCEPT !.lastop = << "load", f >>,
                                !.fresh = FALSE,
                                !.resume =
                                    IF trained THEN NotResumed
                                    ELSE [ loaded |-> TRUE,
                                           best_loss |-> c.best_loss,
                                           train_history |-> c.train_history,
                                           val_history |-> c.val_history ] ]
    /\ pc' = "idle"
    /\ UNCHANGED << epoch, epochs, hasVal, cfg_epochs, sched_steps,
                    train_metrics, val_metrics, files, saving, ret, loader,
                    budget, trainer, trained >>

Next ==
    \/ NewTrainer
    \/ StartTrain
    \/ TrainEpoch
    \/ ValidateEpoch
    \/ CheckpointIfImproved
    \/ CheckpointIfPeriodic
    \/ SaveFinish
    \/ KillDuringSave
    \/ UserSave
    \/ LoadCheckpoint

Init == TrainerInit /\ DataIdle
Spec == Init /\ [][Next]_vars


(***************************************************************************)
(* Numbers of the synthesizer.  A coordinate is an integer number of units *)
(* (one unit is 0.01 m).  On the values of the model float64 arithmetic is *)
(* exact; a float32 keeps F32Bits significant bits, so  astype(np.float32) *)
(* rounds to nearest, ties to even.                                        *)
(***************************************************************************)
F32Bits == 24
\* error_magnitude: float = 0.05
ErrorMagnitude == 5
\* error_coords[idx] -= mid_direction * error_magnitude * 3
SpikeFactor == 3

Abs(x) == IF x < 0 THEN 0 - x ELSE x

RECURSIVE Ulp32(_, _)
Ulp32(a, step) == IF a \div step < 2^F32Bits THEN step ELSE Ulp32(a, 2 * step)

\* np.float32(x)
Round32(x) ==
    LET a == Abs(x)
        step == Ulp32(a, 1)
        q == a \div step
        r == a % step
        up == 2 * r > step \/ (2 * r = step /\ q % 2 = 1)
        m == (IF up THEN q + 1 ELSE q) * step
    IN  IF x < 0 THEN 0 - m ELSE m

\* 2-D points and arrays of points
VAdd(p, q) == << p[1] + q[1], p[2] + q[2] >>
VSub(p, q) == << p[1] - q[1], p[2] - q[2] >>
SquaredNorm(v) == v[1] * v[1] + v[2] * v[2]
VRound32(p) == << Round32(p[1]), Round32(p[2]) >>
Zero2 == << 0, 0 >>
ArrRound32(a) == [ i \in 1..Len(a) |-> VRound32(a[i]) ]

RECURSIVE ISqrtBetween(_, _, _)
ISqrtBetween(n, lo, hi) ==
    IF hi - lo <= 1 THEN lo
    ELSE LET mid == (lo + hi) \div 2
         IN  IF mid * mid <= n THEN ISqrtBetween(n, mid, hi)
             ELSE ISqrtBetween(n, lo, mid)
\* floor of the square root (n < 2^30)
ISqrt(n) == ISqrtBetween(n, 0, 32768)

\* x / y rounded to the nearest integer (y > 0)
RoundDiv(x, y) ==
    IF x >= 0 THEN (2 * x + y) \div (2 * y) ELSE 0 - ((2 * (0 - x) + y) \div (2 * y))

(***************************************************************************)
(* Geometries.  A Polygon's exterior.coords repeats the first point at the *)
(* end; a LineString's coords does not.                                    *)
(***************************************************************************)
IsSupportedAlways(g) == TRUE
IsSupported(g) == g.kind \in {"Polygon", "LineString"}

\* coords = np.array(geometry.exterior.coords[:-1]) / np.array(geometry.coords)
VertexCoordsWithClosure(g) == g.coords
VertexCoords(g) ==
    IF g.kind = "Polygon" THEN SubSeq(g.coords, 1, Len(g.coords) - 1)
    ELSE g.coords

Failure == [ ok |-> FALSE ]

(***************************************************************************)
(* inject_vertex_noise(geometry, noise_range).  noise[i] is the vector     *)
(* (cos(angle) * distance, sin(angle) * distance) drawn for vertex i.      *)
(***************************************************************************)
InjectVertexNoise(g, noise) ==
    IF ~IsSupported(g) THEN Failure
    ELSE
    LET coords == VertexCoords(g)
        n_points == Len(coords)
        clean_coords == coords
        noisy_coords == [ i \in 1..n_points |-> VAdd(clean_coords[i], noise[i]) ]
        offsets == [ i \in 1..n_points |-> VSub(clean_coords[i], noisy_coords[i]) ]
    IN  [ ok |-> TRUE, mode |-> "noise",
          clean |-> ArrRound32(clean_coords),
          noisy |-> ArrRound32(noisy_coords),
          offsets |-> ArrRound32(offsets) ]

(***************************************************************************)
(* create_topology_errors(geometry, error_type, error_magnitude).          *)
(* A direction is <<x, y, n>> with x*x + y*y = n*n: the unit vector        *)
(* (x/n, y/n).  rnd holds the random draws: affected (the sampled          *)
(* indices), dir (a direction per index), idx (the spike vertex), shift.   *)
(***************************************************************************)
ErrorTypes == {"gap", "overlap", "spike", "shift"}

Scaled(d, m) == << (d[1] * m) \div d[3], (d[2] * m) \div d[3] >>

\* max(1, n_points // 4)
AffectedCount(n) == IF n \div 4 > 1 THEN n \div 4 ELSE 1

\* mid_direction / (norm + 1e-8) * error_magnitude * 3, with mid2 twice
\* the mid_direction vector; the zero vector stays zero
SpikeDisplacement(mid2) ==
    IF mid2 = Zero2 THEN Zero2
    ELSE LET norm100 == ISqrt((mid2[1] * mid2[1] + mid2[2] * mid2[2]) * 10000)
             k == ErrorMagnitude * SpikeFactor * 100
         IN  << RoundDiv(mid2[1] * k, norm100), RoundDiv(mid2[2] * k, norm100) >>

CreateTopologyErrors(g, error_type, rnd) ==
    IF ~IsSupported(g) THEN Failure
    ELSE
    LET coords == VertexCoords(g)
        clean_coords == ArrRound32(coords)
        start == ArrRound32(coords)
        n_points == Len(coords)
        \* indices are 1-based here; the code's idx is this minus 1
        Prev(i) == start[i - 1]
        NextPt(i) == start[((i - 1 + 1) % n_points) + 1]
        error_coords ==
            CASE error_type = "gap" ->
                    [ i \in 1..n_points |->
                        IF i \in rnd.affected
                        THEN VRound32(VSub(start[i], Scaled(rnd.dir[i], ErrorMagnitude)))
                        ELSE start[i] ]
              [] error_type = "overlap" ->
                    [ i \in 1..n_points |->
                        IF i \in rnd.affected
                        THEN VRound32(VAdd(start[i], Scaled(rnd.dir[i], ErrorMagnitude)))
                        ELSE start[i] ]
              [] error_type = "spike" ->
                    IF n_points >= 3
                    THEN [ i \in 1..n_points |->
                            IF i = rnd.idx
                            THEN LET mid2 == VSub(VRound32(VAdd(Prev(i), NextPt(i))),
                                                  VAdd(start[i], start[i]))
                                 IN  VRound32(VSub(start[i], SpikeDisplacement(mid2)))
                            ELSE start[i] ]
                    ELSE start
              [] error_type = "shift" ->
                    [ i \in 1..n_points |-> VRound32(VAdd(start[i], rnd.shift)) ]
              [] OTHER -> start
        offsets == [ i \in 1..n_points |-> VRound32(VSub(clean_coords[i], error_coords[i])) ]
    IN  [ ok |-> TRUE, mode |-> error_type,
          clean |-> clean_coords,
          noisy |-> error_coords,
          offsets |-> offsets ]

(***************************************************************************)
(* SynthSpec: the two synthesizer functions applied to a drawn geometry    *)
(* with drawn random numbers.                                              *)
(***************************************************************************)
\* vertices of the geometries the functions are applied to: 3..MaxSynthVertices
MaxSynthVertices == 4

\* a geometry lies near the origin, or far from it where float32 is coarse
Origins == { << 0, 0 >>, << 2^F32Bits, 2^F32Bits >> }
LocalPoints == { << 0, 0 >>, << 3, 1 >>, << 6, 2 >>, << 1, 7 >> }

MakeGeometry(kind, pts) ==
    [ kind |-> kind,
      coords |-> IF kind = "Polygon" THEN Append(pts, pts[1]) ELSE pts ]

\* geometries that are neither Polygon nor LineString
UnsupportedGeometries ==
    { [ kind |-> "Point", coords |-> << VAdd(o, p) >> ] :
        o \in Origins, p \in LocalPoints }
    \cup { [ kind |-> "MultiPoint",
             coords |-> << o, VAdd(o, << 3, 1 >>), VAdd(o, << 1, 7 >>) >> ] :
           o \in Origins }

SynthGeometries ==
    { MakeGeometry(kind, [ i \in DOMAIN loc |-> VAdd(o, loc[i]) ]) :
        kind \in {"Polygon", "LineString"},
        o \in Origins,
        loc \in UNION { [ 1..n -> LocalPoints ] : n \in 3..MaxSynthVertices } }
    \cup UnsupportedGeometries

\* noise vectors of magnitude within noise_range = (0.05, 0.3): 5..30 units
NoiseVectors == { << 5, 0 >>, << 0 - 18, 24 >> }
Directions == { << 1, 0, 1 >>, << 0, 0 - 1, 1 >>, << 3, 4, 5 >>, << 0 - 4, 3, 5 >> }
\* np.random.uniform(-error_magnitude, error_magnitude, 2)
ShiftVectors == { << 5, 0 - 5 >>, << 0 - 2, 3 >>, << 1, 0 >> }

NoDraws == [ affected |-> {}, dir |-> << >>, idx |-> 0, shift |-> Zero2 ]

\* the draws create_topology_errors can make on n points
TopologyDraws(error_type, n) ==
    CASE error_type \in {"gap", "overlap"} ->
            { [ NoDraws EXCEPT !.affected = a, !.dir = [ i \in a |-> d ] ] :
                a \in { x \in SUBSET (1..n) : Cardinality(x) = AffectedCount(n) },
                d \in Directions }
      [] error_type = "spike" ->
            \* idx = random.randint(1, n_points - 2), 0-based
            { [ NoDraws EXCEPT !.idx = i + 1 ] : i \in 1..(n - 2) }
      [] OTHER ->
            { [ NoDraws EXCEPT !.shift = v ] : v \in ShiftVectors }

\* the trainer is not part of SynthSpec and StoreSpec
TrainerIdle ==
    /\ pc = "init"
    /\ epoch = 0
    /\ epochs = 0
    /\ hasVal = FALSE
    /\ cfg_epochs = ConfigEpochs
    /\ weights = 0
    /\ opt_state = 0
    /\ sched_steps = 0
    /\ best_loss = Inf
    /\ train_history = << >>
    /\ val_history = << >>
    /\ train_metrics = None
    /\ val_metrics = None
    /\ files = << >>
    /\ saving = NoName
    /\ ret = "init"
    /\ loader = [ rich |-> FALSE, train |-> {}, val |-> {} ]
    /\ budget = 0
    /\ trainer = "first"
    /\ trained = FALSE
    /\ userops = 0
    /\ hist = [ fresh |-> TRUE, tracked |-> << >>, prev_best |-> Inf,
                written |-> {}, saved |-> << >>,
                lastop |-> << "construct", NoName >>, order |-> << >>,
                resume |-> NotResumed ]

SynthStart ==
    /\ synth \in { [ op |-> "none", geometry |-> g, result |-> Failure ] :
                     g \in SynthGeometries }
    /\ store = [ kind |-> "none" ]
    /\ item = [ op |-> "none" ]
    /\ net = [ op |-> "none" ]

SynthInit == SynthStart /\ TrainerIdle

CallInjectVertexNoise ==
    /\ synth.op = "none"
    /\ \E noise \in [ 1..Len(VertexCoords(synth.geometry)) -> NoiseVectors ] :
          synth' = [ synth EXCEPT !.op = "inject_vertex_noise",
                                  !.result = InjectVertexNoise(synth.geometry, noise) ]
    /\ UNCHANGED << store, item, net >>
    /\ UNCHANGED trainerVars

CallCreateTopologyErrors ==
    /\ synth.op = "none"
    /\ \E error_type \in ErrorTypes :
          \E rnd \in TopologyDraws(error_type, Len(VertexCoords(synth.geometry))) :
             synth' = [ synth EXCEPT !.op = "create_topology_errors",
                          !.result = CreateTopologyErrors(synth.geometry, error_type, rnd) ]
    /\ UNCHANGED << store, item, net >>
    /\ UNCHANGED trainerVars

SynthNext ==
    \/ CallInjectVertexNoise
    \/ CallCreateTopologyErrors

SynthSpec == SynthInit /\ [][SynthNext]_vars

\* C9: for every triple (clean, perturbed, offset) produced by
\* inject_vertex_noise or create_topology_errors, offset = clean - perturbed
\* at every vertex and coordinate (perturbed + offset = clean), and the
\* three arrays have the length N of the reference geometry.
C9_OffsetIsCleanMinusPerturbed ==
    (synth.op # "none" /\ synth.result.ok) =>
        LET r == synth.result
            N == Len(VertexCoords(synth.geometry))
        IN  /\ Len(r.clean) = N /\ Len(r.noisy) = N /\ Len(r.offsets) = N
            /\ \A i \in 1..N :
                  /\ r.offsets[i] = VSub(r.clean[i], r.noisy[i])
                  /\ VAdd(r.noisy[i], r.offsets[i]) = r.clean[i]

\* the same statement for create_topology_errors alone, which subtracts
\* the float32 arrays it returns
TopologyOffsetIsCleanMinusPerturbed ==
    (synth.op = "create_topology_errors" /\ synth.result.ok) =>
        LET r == synth.result IN
            \A i \in 1..Len(r.clean) : r.offsets[i] = VSub(r.clean[i], r.noisy[i])

\* a create_topology_errors call that took the spike branch
SpikeCall ==
    /\ synth.op = "create_topology_errors"
    /\ synth.result.ok
    /\ synth.result.mode = "spike"

\* the vertices at which the perturbed array differs from the clean one
Differing == { i \in 1..Len(synth.result.clean) :
                 synth.result.noisy[i] # synth.result.clean[i] }

\* C17: in spike mode on a ring or chain with N >= 3 vertices exactly one
\* vertex differs between perturbed and clean, its index is interior
\* (0-based in [1, N-2]), its displacement is at least 3 times
\* error_magnitude (up to the rounding of a coordinate to one unit), and all
\* other vertices are unchanged.
C17_SpikeMovesOneVertex ==
    (SpikeCall /\ Len(synth.result.clean) >= 3) =>
        LET r == synth.result
            N == Len(r.clean)
        IN  /\ Cardinality(Differing) = 1
            /\ \A i \in Differing :
                  /\ 2 <= i /\ i <= N - 1
                  /\ SquaredNorm(VSub(r.clean[i], r.noisy[i]))
                       >= (SpikeFactor * ErrorMagnitude - 1) * (SpikeFactor * ErrorMagnitude - 1)

\* what the spike branch does guarantee: at most one vertex differs, and it
\* is interior
SpikeMovesAtMostOneInterior ==
    SpikeCall =>
        /\ Cardinality(Differing) <= 1
        /\ \A i \in Differing : 2 <= i /\ i <= Len(synth.result.clean) - 1

\* a spike call on a chain of distinct vertices that moved one vertex by
\* 3 times error_magnitude
SpikeMovedOne ==
    /\ SpikeCall
    /\ Cardinality(Differing) = 1
    /\ \A i \in Differing :
          SquaredNorm(VSub(synth.result.clean[i], synth.result.noisy[i]))
            >= (SpikeFactor * ErrorMagnitude - 1) * (SpikeFactor * ErrorMagnitude - 1)

C18_WitnessTopology ==
    /\ synth.op = "create_topology_errors"
    /\ synth.geometry.kind = "MultiPoint"
    /\ ~synth.result.ok

(***************************************************************************)
(* StoreSpec: the two sample stores.  GeometryDataset generates n_samples  *)
(* synthetic samples in its constructor; FGDBGeometryDataset prepares its  *)
(* samples from the geometries the loader supplied.  One step of a         *)
(* constructor is one iteration of its loop.                               *)
(***************************************************************************)
\* n_samples of the synthetic store
MaxSamples == 1
\* geometries supplied to the external-source store
MaxGeoms == 2
\* the configured max_vertices: one below the largest synthetic geometry,
\* one that holds every synthetic geometry
SmallMaxVertices == 5
LargeMaxVertices == 20

\* n_vertices_range of generate_synthetic_polygon and generate_synthetic_line
PolygonMinVertices == 4
PolygonMaxVertices == 20
LineMinVertices == 3
LineMaxVertices == 15

\* the coordinates of a generated geometry are random; the model keeps one
\* draw per vertex count
SyntheticPoint(i) == << 3 * i, (i * i) % 7 >>

\* generate_synthetic_polygon(): n_vertices = random.randint(4, 20)
GenerateSyntheticPolygon(n) ==
    MakeGeometry("Polygon", [ i \in 1..n |-> SyntheticPoint(i) ])

\* generate_synthetic_line(): n_vertices = random.randint(3, 15)
GenerateSyntheticLine(n) ==
    MakeGeometry("LineString", [ i \in 1..n |-> SyntheticPoint(i) ])

VertexRange(geom_type) ==
    IF geom_type = "polygon" THEN PolygonMinVertices..PolygonMaxVertices
    ELSE LineMinVertices..LineMaxVertices

\* the random numbers of a store's synthesizer call: one draw per shape
StoreNoise(n) == [ i \in 1..n |-> IF i % 2 = 1 THEN << 5, 0 >> ELSE << 0 - 18, 24 >> ]
StoreDraws(n) ==
    [ affected |-> 1..AffectedCount(n),
      dir |-> [ i \in 1..AffectedCount(n) |-> << 3, 4, 5 >> ],
      idx |-> 2,
      shift |-> << 5, 0 - 5 >> ]

\* the dict appended to self.data
Sample(r) ==
    [ clean |-> r.clean, noisy |-> r.noisy, offsets |-> r.offsets,
      n_vertices |-> Len(r.clean) ]

Constructed ==
    \/ store.kind = "synthetic" /\ Len(store.data) = store.n_samples
    \/ store.kind = "fgdb" /\ store.next > Len(store.geometries)

\* geometries the loader can supply: rings and chains of 2..SmallMaxVertices+1
\* vertices
FgdbPool ==
    { MakeGeometry(kind, [ i \in 1..n |-> SyntheticPoint(i) ]) :
        kind \in {"Polygon", "LineString"}, n \in 2..(SmallMaxVertices + 1) }

SeqsUpTo(S, k) == UNION { [ 1..n -> S ] : n \in 0..k }

StoreStart ==
    /\ \E mv \in {SmallMaxVertices, LargeMaxVertices} :
          \/ \E ns \in 0..MaxSamples, topo \in BOOLEAN :
                store = [ kind |-> "synthetic", max_vertices |-> mv,
                          include_topology_errors |-> topo, n_samples |-> ns,
                          geometries |-> << >>, next |-> 1, data |-> << >>,
                          trace |-> << >> ]
          \/ \E gs \in SeqsUpTo(FgdbPool, MaxGeoms) :
                store = [ kind |-> "fgdb", max_vertices |-> mv,
                          include_topology_errors |-> FALSE, n_samples |-> 0,
                          geometries |-> gs, next |-> 1, data |-> << >>,
                          trace |-> << >> ]
    /\ synth = [ op |-> "none", geometry |-> << >>, result |-> [ ok |-> FALSE ] ]
    /\ item = [ op |-> "none" ]
    /\ net = [ op |-> "none" ]

StoreInit == StoreStart /\ TrainerIdle

\* GeometryDataset._generate_samples, one iteration
GenerateSample ==
    /\ store.kind = "synthetic"
    /\ Len(store.data) < store.n_samples
    /\ \E geom_type \in {"polygon", "line"} :
       \E n \in VertexRange(geom_type) :
       \E topology \in {t \in BOOLEAN : t => store.include_topology_errors} :
       \E error_type \in IF topology THEN ErrorTypes ELSE {"none"} :
          LET geometry == IF geom_type = "polygon" THEN GenerateSyntheticPolygon(n)
                          ELSE GenerateSyntheticLine(n)
              r == IF topology
                   THEN CreateTopologyErrors(geometry, error_type, StoreDraws(n))
                   ELSE InjectVertexNoise(geometry, StoreNoise(n))
          IN  store' = [ store EXCEPT !.data = Append(@, Sample(r)),
                           !.trace = Append(@, [ src |-> 0, mode |-> r.mode ]) ]
    /\ UNCHANGED << synth, item, net >>
    /\ UNCHANGED trainerVars

\* n_vertices = len(geom.exterior.coords) - 1 / len(geom.coords)
CountVertices(g) ==
    IF g.kind = "Polygon" THEN Len(g.coords) - 1 ELSE Len(g.coords)

\* if n_vertices > self.max_vertices or n_vertices < 3: continue
FilterKeepsBelowMax(n, mv) == ~(n >= mv \/ n < 3)
FilterKeeps(n, mv) == ~(n > mv \/ n < 3)

\* FGDBGeometryDataset._prepare_samples, one iteration
PrepareSample ==
    /\ store.kind = "fgdb"
    /\ store.next <= Len(store.geometries)
    /\ LET geom == store.geometries[store.next]
           n_vertices == CountVertices(geom)
           r == InjectVertexNoise(geom, StoreNoise(n_vertices))
       IN  IF FilterKeeps(n_vertices, store.max_vertices) /\ r.ok
           THEN store' = [ store EXCEPT !.next = @ + 1,
                             !.data = Append(@, Sample(r)),
                             !.trace = Append(@, [ src |-> store.next, mode |-> r.mode ]) ]
           ELSE store' = [ store EXCEPT !.next = @ + 1 ]
    /\ UNCHANGED << synth, item, net >>
    /\ UNCHANGED trainerVars

\* the padding of __getitem__: padded[:n] = sample[...]; mask[:n] = 1.0.
\* Assigning n rows to the max_vertices rows of padded[:n] raises when
\* n > max_vertices.
PaddedElementUnmasked(sample, mv) ==
    LET n == sample["n_vertices"] IN
    IF n > mv THEN [ error |-> TRUE ]
    ELSE [ error |-> FALSE,
           input  |-> [ j \in 1..mv |-> IF j <= n THEN sample["noisy"][j] ELSE Zero2 ],
           target |-> [ j \in 1..mv |-> IF j <= n THEN sample["offsets"][j] ELSE Zero2 ],
           mask   |-> [ j \in 1..mv |-> 1 ],
           n_vertices |-> n ]
PaddedElement(sample, mv) ==
    LET n == sample["n_vertices"] IN
    IF n > mv THEN [ error |-> TRUE ]
    ELSE [ error |-> FALSE,
           input  |-> [ j \in 1..mv |-> IF j <= n THEN sample["noisy"][j] ELSE Zero2 ],
           target |-> [ j \in 1..mv |-> IF j <= n THEN sample["offsets"][j] ELSE Zero2 ],
           mask   |-> [ j \in 1..mv |-> IF j <= n THEN 1 ELSE 0 ],
           n_vertices |-> n ]

\* the element returned for an empty external-source store
DummyElement(mv) ==
    [ error |-> FALSE,
      input  |-> [ j \in 1..mv |-> Zero2 ],
      target |-> [ j \in 1..mv |-> Zero2 ],
      mask   |-> [ j \in 1..mv |-> 0 ],
      n_vertices |-> 0 ]

\* GeometryDataset.__len__ / FGDBGeometryDataset.__len__
StoreLenNoSentinel == Len(store.data)
StoreLen ==
    IF store.kind = "fgdb" /\ store.data = << >> THEN 1 ELSE Len(store.data)

\* GeometryDataset.__getitem__ / FGDBGeometryDataset.__getitem__ (idx 0-based)
StoreGetItem(idx) ==
    IF store.kind = "fgdb" /\ store.data = << >>
    THEN DummyElement(store.max_vertices)
    ELSE PaddedElement(store.data[idx + 1], store.max_vertices)

Len_ ==
    /\ Constructed
    /\ item' = [ op |-> "len", idx |-> 0, value |-> StoreLen ]
    /\ UNCHANGED << synth, store, net >>
    /\ UNCHANGED trainerVars

GetItem ==
    /\ Constructed
    /\ \E idx \in 0..(StoreLen - 1) :
          item' = [ op |-> "getitem", idx |-> idx, value |-> StoreGetItem(idx) ]
    /\ UNCHANGED << synth, store, net >>
    /\ UNCHANGED trainerVars

(***************************************************************************)
(* train_with_fgdb_data: the records of the external-source store are      *)
(* shuffled, split 90/10 and handed to two FGDBDatasetWrapper objects.     *)
(***************************************************************************)
\* np.random.shuffle(combined_samples): the orders a shuffle can produce
Shuffles(data) ==
    { [ k \in 1..Len(data) |-> data[p[k]] ] :
        p \in { q \in [ 1..Len(data) -> 1..Len(data) ] :
                  \A i, j \in 1..Len(data) : q[i] = q[j] => i = j } }

\* split_idx = int(len(combined_samples) * 0.9)
SplitIdx(n) == (n * 9) \div 10

\* sample[key] of a dict: KeyError when the dict has no such key
HasKey(sample, key) == key \in DOMAIN sample

\* FGDBDatasetWrapper.__getitem__ on one record
WrapperElement(sample, mv) ==
    IF ~HasKey(sample, "noisy_coords") \/ ~HasKey(sample, "offsets")
    THEN [ error |-> TRUE, raised |-> "KeyError" ]
    ELSE LET n == Len(sample["noisy_coords"]) IN
         IF n > mv THEN [ error |-> TRUE, raised |-> "ValueError" ]
         ELSE [ error |-> FALSE,
                input  |-> [ j \in 1..mv |->
                               IF j <= n THEN sample["noisy_coords"][j] ELSE Zero2 ],
                target |-> [ j \in 1..mv |->
                               IF j <= n THEN sample["offsets"][j] ELSE Zero2 ],
                mask   |-> [ j \in 1..mv |-> IF j <= n THEN 1 ELSE 0 ],
                n_vertices |-> n ]

\* __getitem__(idx) of the training or the validation wrapper (idx 0-based)
WrapperGetItem ==
    /\ Constructed
    /\ store.kind = "fgdb"
    /\ store.data # << >>
    /\ \E combined_samples \in Shuffles(store.data) :
       \E part \in {"train", "val"} :
          LET split_idx == SplitIdx(Len(combined_samples))
              samples == IF part = "train"
                         THEN SubSeq(combined_samples, 1, split_idx)
                         ELSE SubSeq(combined_samples, split_idx + 1,
                                     Len(combined_samples))
          IN  \E idx \in 0..(Len(samples) - 1) :
                 item' = [ op |-> "wrapper_getitem", idx |-> idx,
                           part |-> part, sample |-> samples[idx + 1],
                           value |-> WrapperElement(samples[idx + 1],
                                                    store.max_vertices) ]
    /\ UNCHANGED << synth, store, net >>
    /\ UNCHANGED trainerVars

StoreNext ==
    \/ GenerateSample
    \/ PrepareSample
    \/ Len_
    \/ GetItem
    \/ WrapperGetItem

StoreSpec == StoreInit /\ [][StoreNext]_vars

(***************************************************************************)
(* FetchSpec: several batch-fetchers reading one store whose constructor   *)
(* has returned.  A fetcher calls __len__, or calls __getitem__ in two     *)
(* steps: the subscript self.data[idx] and then the padding and the        *)
(* return, so that the calls of different fetchers interleave.  The calls  *)
(* made so far are kept in item: the cache as it was when the constructor  *)
(* returned (built), every value __len__ returned (counts) and every pair  *)
(* of index and element __getitem__ returned (returned).                   *)
(***************************************************************************)
\* records in the cache of the store the fetchers read
MaxCached == 2

\* the geometries behind the cached records: rings and chains with fewer and
\* with more vertices than the small max_vertices
FetchGeometries ==
    { MakeGeometry(kind, [ i \in 1..n |-> SyntheticPoint(i) ]) :
        kind \in {"Polygon", "LineString"},
        n \in {PolygonMinVertices, SmallMaxVertices + 1} }

\* the store a constructor leaves behind: one record per geometry, and in the
\* external-source store only geometries that pass the filter
FetchStart ==
    /\ \E mv \in {SmallMaxVertices, LargeMaxVertices} :
       \E kind \in {"synthetic", "fgdb"} :
       \E gs \in SeqsUpTo(FetchGeometries, MaxCached) :
          /\ kind = "fgdb" =>
                \A k \in 1..Len(gs) : FilterKeeps(CountVertices(gs[k]), mv)
          /\ store = [ kind |-> kind, max_vertices |-> mv,
                       include_topology_errors |-> FALSE,
                       n_samples |-> IF kind = "synthetic" THEN Len(gs) ELSE 0,
                       geometries |-> IF kind = "fgdb" THEN gs ELSE << >>,
                       next |-> IF kind = "fgdb" THEN Len(gs) + 1 ELSE 1,
                       data |-> [ k \in 1..Len(gs) |->
                                    Sample(InjectVertexNoise(gs[k],
                                               StoreNoise(CountVertices(gs[k])))) ],
                       trace |-> << >> ]
    /\ synth = [ op |-> "none", geometry |-> << >>, result |-> [ ok |-> FALSE ] ]
    /\ item = [ op |-> "none" ]
    /\ net = [ op |-> "none" ]

FetchInit == FetchStart /\ TrainerIdle

Fetchers == {"a", "b"}

FetchState ==
    IF item.op = "fetch" THEN item
    ELSE [ op |-> "fetch",
           pc |-> [ w \in Fetchers |-> "idle" ],
           idx |-> [ w \in Fetchers |-> 0 ],
           built |-> store.data,
           counts |-> {},
           returned |-> {} ]

\* self.data after the statement sample = self.data[idx]: a subscript reads
\* the list; a pop would remove the entry
CacheAfterPop(data, idx) ==
    IF idx < Len(data)
    THEN [ j \in 1..(Len(data) - 1) |-> IF j <= idx THEN data[j] ELSE data[j + 1] ]
    ELSE data
CacheAfterSubscript(data, idx) == data

\* __len__ called by fetcher w
FetchCount(w) ==
    /\ Constructed
    /\ FetchState.pc[w] = "idle"
    /\ item' = [ FetchState EXCEPT !.counts = @ \cup {StoreLen} ]
    /\ UNCHANGED << synth, store, net >>
    /\ UNCHANGED trainerVars

\* __getitem__(idx) called by fetcher w, up to sample = self.data[idx]
FetchSample(w) ==
    /\ Constructed
    /\ FetchState.pc[w] = "idle"
    /\ \E idx \in 0..(StoreLen - 1) :
          /\ item' = [ FetchState EXCEPT !.pc[w] = "padding", !.idx[w] = idx ]
          /\ store' = [ store EXCEPT !.data = CacheAfterSubscript(@, idx) ]
    /\ UNCHANGED << synth, net >>
    /\ UNCHANGED trainerVars

\* the rest of __getitem__: the padded arrays are new arrays filled from the
\* sample, and the returned tensors share memory with them only
FetchReturn(w) ==
    /\ item.op = "fetch"
    /\ item.pc[w] = "padding"
    /\ LET idx == item.idx[w]
           value == IF idx < StoreLen THEN StoreGetItem(idx) ELSE [ error |-> TRUE ]
       IN  item' = [ item EXCEPT !.pc[w] = "idle",
                       !.returned = @ \cup {[ idx |-> idx, value |-> value ]} ]
    /\ UNCHANGED << synth, store, net >>
    /\ UNCHANGED trainerVars

FetchNext ==
    \/ \E w \in Fetchers : FetchCount(w)
    \/ \E w \in Fetchers : FetchSample(w)
    \/ \E w \in Fetchers : FetchReturn(w)

FetchSpec == FetchInit /\ [][FetchNext]_vars

(***************************************************************************)
(* NetSpec: GeometryGNN.forward on one batch element.  Tensor entries are  *)
(* integers and a hidden state has one channel, so a [n_nodes, hidden]     *)
(* tensor is a sequence of integers and a [n_nodes, 2] tensor a sequence   *)
(* of pairs.  All layers of one network share one parameter record.        *)
(***************************************************************************)
\* n_nodes of the tensors given to the network (the batch's max_vertices)
NetMaxVertices == 4
\* num_layers of the networks
MaxLayers == 2

Points == { << 0, 0 >>, << 1, 0 - 2 >> }
Tensors(n) == [ 1..n -> Points ]
Masks(n) == [ 1..n -> {0, 1} ]

\* the parameters a network can hold
ParamChoices ==
    { [ embed_w |-> << 1, 1 >>, embed_b |-> 0,
        w_self |-> 1, b_self |-> 0, w_nb |-> 1, b_nb |-> 0,
        bn_gamma |-> 1, bn_beta |-> 0,
        out_w1 |-> 1, out_b1 |-> 0, out_w2 |-> << 1, 0 - 1 >>, out_b2 |-> << 0, 0 >> ],
      [ embed_w |-> << 2, 0 - 1 >>, embed_b |-> 1,
        w_self |-> 0 - 1, b_self |-> 1, w_nb |-> 2, b_nb |-> 0 - 1,
        bn_gamma |-> 1, bn_beta |-> 1,
        out_w1 |-> 1, out_b1 |-> 1, out_w2 |-> << 1, 2 >>, out_b2 |-> << 1, 0 - 1 >> ] }

\* the tensor with the entries of f, as a sequence of n evaluated entries
RECURSIVE Tensor(_, _)
Tensor(f, n) == IF n = 0 THEN << >> ELSE Append(Tensor(f, n - 1), f[n])

RECURSIVE SumTo(_, _)
SumTo(f, n) == IF n = 0 THEN 0 ELSE f[n] + SumTo(f, n - 1)
SumSeq(f) == SumTo(f, Len(f))

\* torch.roll(x, shifts, dims=1): element i moves to i + shifts (mod n)
RollUnshifted(x, shifts) == x
Roll(x, shifts) ==
    LET n == Len(x)
    IN  Tensor([ i \in 1..n |-> x[((i - 1 - shifts) % n) + 1] ], n)

\* self.input_embed(x)
InputEmbed(p, x) ==
    Tensor([ i \in 1..Len(x) |->
              p.embed_w[1] * x[i][1] + p.embed_w[2] * x[i][2] + p.embed_b ], Len(x))

\* prev_x + next_x
NeighborSum(h) ==
    LET prev_x == Roll(h, 1)
        next_x == Roll(h, 0 - 1)
    IN  Tensor([ i \in 1..Len(h) |-> prev_x[i] + next_x[i] ], Len(h))

\* GraphConvLayer.forward
GraphConv(p, h, mask) ==
    LET neighbor_sum == NeighborSum(h)
    IN  Tensor([ i \in 1..Len(h) |->
                   ((p.w_self * h[i] + p.b_self) + (p.w_nb * neighbor_sum[i] + p.b_nb))
                     * mask[i] ], Len(h))

\* nn.BatchNorm1d over the node axis.  Evaluation mode applies the affine
\* map of the running statistics (mean 0, variance 1); training mode
\* normalises with the mean and deviation of the tensor itself.
BatchNorm(p, c, training) ==
    LET n == Len(c)
        mean == RoundDiv(SumSeq(c), n)
        var == SumSeq(Tensor([ i \in 1..n |-> (c[i] - mean) * (c[i] - mean) ], n)) \div n
        std == IF ISqrt(var) = 0 THEN 1 ELSE ISqrt(var)
    IN  Tensor([ i \in 1..n |->
                   IF training THEN p.bn_gamma * RoundDiv(c[i] - mean, std) + p.bn_beta
                   ELSE p.bn_gamma * c[i] + p.bn_beta ], n)

ReLU(v) == IF v > 0 THEN v ELSE 0

\* nn.Dropout: identity in evaluation mode; in training mode the positions
\* with keep = 0 are zeroed (the rescaling of the kept ones is left out)
Dropout(r, training, keep) ==
    Tensor([ i \in 1..Len(r) |-> IF training THEN r[i] * keep[i] ELSE r[i] ], Len(r))

\* one pass of the loop body of GeometryGNN.forward: h = h + h_new
ConvBlock(p, h, mask, training, keep) ==
    LET h_conv == GraphConv(p, h, mask)
        h_bn == BatchNorm(p, h_conv, training)
        h_relu == Tensor([ i \in 1..Len(h) |-> ReLU(h_bn[i]) ], Len(h))
        h_new == Dropout(h_relu, training, keep)
    IN  Tensor([ i \in 1..Len(h) |-> h[i] + h_new[i] ], Len(h))

\* the hidden state entering layer k + 1 (k layers applied)
RECURSIVE HiddenAfter(_, _, _, _, _, _)
HiddenAfter(p, h0, mask, training, keep, k) ==
    IF k = 0 THEN h0
    ELSE ConvBlock(p, HiddenAfter(p, h0, mask, training, keep, k - 1),
                   mask, training, keep)

\* self.output_layer(h): Linear, ReLU, Linear
OutputLayer(p, v) ==
    LET u == ReLU(p.out_w1 * v + p.out_b1)
    IN  << p.out_w2[1] * u + p.out_b2[1], p.out_w2[2] * u + p.out_b2[2] >>

\* output = output * mask.unsqueeze(-1)
MaskOutputNone(o, m) == o
MaskOutput(o, m) == << o[1] * m, o[2] * m >>

\* GeometryGNN.forward(x, mask)
Forward(model, x, mask, keep) ==
    LET p == model.params
        h0 == InputEmbed(p, x)
        h == HiddenAfter(p, h0, mask, model.training, keep, model.num_layers)
    IN  Tensor([ i \in 1..Len(x) |-> MaskOutput(OutputLayer(p, h[i]), mask[i]) ], Len(x))

\* the tensors GraphConvLayer.forward of layer k sees: its input and the
\* neighbour sum it forms
LayerTrace(model, x, mask, keep) ==
    [ k \in 1..model.num_layers |->
        LET h == HiddenAfter(model.params, InputEmbed(model.params, x), mask,
                             model.training, keep, k - 1)
        IN  [ h |-> h, neighbor_sum |-> NeighborSum(h) ] ]

\* the dropout draws of one call
KeepDraws(n) ==
    { [ i \in 1..n |-> 1 ], [ i \in 1..n |-> IF i % 2 = 1 THEN 0 ELSE 1 ] }

NoCall == [ x |-> << >>, mask |-> << >>, out |-> << >> ]

NetStart ==
    /\ \E p \in ParamChoices, l \in 1..MaxLayers, training \in BOOLEAN :
          net = [ op |-> "none",
                  model |-> [ params |-> p, num_layers |-> l, training |-> training ],
                  x |-> << >>, mask |-> << >>, out |-> << >>, layers |-> << >>,
                  first |-> NoCall ]
    /\ synth = [ op |-> "none", geometry |-> << >>, result |-> [ ok |-> FALSE ] ]
    /\ store = [ kind |-> "none" ]
    /\ item = [ op |-> "none" ]

NetInit == NetStart /\ TrainerIdle

\* model(x, mask)
CallForward ==
    /\ net.op = "none"
    /\ \E x \in Tensors(NetMaxVertices), mask \in Masks(NetMaxVertices) :
       \E keep \in IF net.model.training THEN KeepDraws(NetMaxVertices)
                   ELSE { [ i \in 1..NetMaxVertices |-> 1 ] } :
          net' = [ net EXCEPT !.op = "forward", !.x = x, !.mask = mask,
                     !.out = Forward(net.model, x, mask, keep),
                     !.layers = LayerTrace(net.model, x, mask, keep) ]
    /\ UNCHANGED << synth, store, item >>
    /\ UNCHANGED trainerVars

\* a second call of model(x, mask) with the same mask, on an input that
\* agrees with the first on every position with mask = 1
CallForwardPaddingChanged ==
    /\ net.op = "forward"
    /\ \E x \in { y \in Tensors(NetMaxVertices) :
                    \A i \in 1..NetMaxVertices : net.mask[i] = 1 => y[i] = net.x[i] } :
       \E keep \in IF net.model.training THEN KeepDraws(NetMaxVertices)
                   ELSE { [ i \in 1..NetMaxVertices |-> 1 ] } :
          net' = [ net EXCEPT !.op = "forward_again", !.x = x,
                     !.out = Forward(net.model, x, net.mask, keep),
                     !.layers = LayerTrace(net.model, x, net.mask, keep),
                     !.first = [ x |-> net.x, mask |-> net.mask, out |-> net.out ] ]
    /\ UNCHANGED << synth, store, item >>
    /\ UNCHANGED trainerVars

NetNext ==
    \/ CallForward
    \/ CallForwardPaddingChanged

NetSpec == NetInit /\ [][NetNext]_vars

(***************************************************************************)
(* LossSpec: GeometryLoss.forward on one batch element.  A loss value is   *)
(* kept as the exact quotient  num / (count + 1e-8):  the record           *)
(* [num, count].  It is 0 exactly when num = 0 and is always defined.     *)
(***************************************************************************)
\* n_nodes of the tensors given to the loss
LossMaxVertices == 3

\* mse_weight = 1.0 and smoothness_weight = 0.1, in tenths
MseWeight10 == 10
SmoothnessWeight10 == 1

\* the masks the sample stores produce: mask[:n] = 1.0
PrefixMasks(n) == { [ i \in 1..n |-> IF i <= k THEN 1 ELSE 0 ] : k \in 0..n }

\* input_coords = None
NoCoords == << >>

\* x / (mask.sum() + 1e-8)
OverMaskSum(num, mask) == [ num |-> num, count |-> SumSeq(mask) ]

\* F.mse_loss(pred * mask, target * mask, reduction='sum') / (mask.sum() + 1e-8)
MseLossUnmasked(pred, target, mask) ==
    LET n == Len(mask)
        sq == Tensor([ i \in 1..n |-> SquaredNorm(VSub(pred[i], target[i])) ], n)
    IN  OverMaskSum(SumSeq(sq), mask)
MseLoss(pred, target, mask) ==
    LET n == Len(mask)
        sq == Tensor([ i \in 1..n |->
                 SquaredNorm(VSub(MaskOutput(pred[i], mask[i]),
                                  MaskOutput(target[i], mask[i]))) ], n)
    IN  OverMaskSum(SumSeq(sq), mask)

\* (diff_prev.pow(2) + diff_next.pow(2)) * mask, summed, / (mask.sum() + 1e-8)
SmoothnessLoss(pred, mask, input_coords) ==
    LET n == Len(mask)
        corrected == Tensor([ i \in 1..n |-> VAdd(input_coords[i], pred[i]) ], n)
        prev == Roll(corrected, 1)
        next == Roll(corrected, 0 - 1)
        smoothness == Tensor([ i \in 1..n |->
                        (SquaredNorm(VSub(corrected[i], prev[i]))
                           + SquaredNorm(VSub(corrected[i], next[i]))) * mask[i] ], n)
    IN  OverMaskSum(SumSeq(smoothness), mask)

\* GeometryLoss.forward(pred_offsets, target_offsets, mask, input_coords);
\* total is in tenths
GeometryLoss(pred, target, mask, input_coords) ==
    LET mse == MseLoss(pred, target, mask)
    IN  IF input_coords # NoCoords /\ SmoothnessWeight10 > 0
        THEN LET smoothness == SmoothnessLoss(pred, mask, input_coords)
             IN  [ mse |-> mse, has_smoothness |-> TRUE, smoothness |-> smoothness,
                   total |-> [ num |-> MseWeight10 * mse.num
                                         + SmoothnessWeight10 * smoothness.num,
                               count |-> mse.count ] ]
        ELSE [ mse |-> mse, has_smoothness |-> FALSE,
               smoothness |-> [ num |-> 0, count |-> 0 ],
               total |-> [ num |-> MseWeight10 * mse.num, count |-> mse.count ] ]

NoLoss == [ pred |-> << >>, target |-> << >>, input_coords |-> << >>,
            losses |-> [ has_smoothness |-> FALSE ] ]

LossStart ==
    /\ net = [ op |-> "none", pred |-> << >>, target |-> << >>, mask |-> << >>,
               input_coords |-> << >>, losses |-> [ has_smoothness |-> FALSE ],
               first |-> NoLoss ]
    /\ synth = [ op |-> "none", geometry |-> << >>, result |-> [ ok |-> FALSE ] ]
    /\ store = [ kind |-> "none" ]
    /\ item = [ op |-> "none" ]

LossInit == LossStart /\ TrainerIdle

\* criterion(outputs, targets, masks, inputs)
CallLoss ==
    /\ net.op = "none"
    /\ \E pred \in Tensors(LossMaxVertices), target \in Tensors(LossMaxVertices),
          mask \in PrefixMasks(LossMaxVertices),
          input_coords \in Tensors(LossMaxVertices) \cup {NoCoords} :
          net' = [ net EXCEPT !.op = "loss", !.pred = pred, !.target = target,
                     !.mask = mask, !.input_coords = input_coords,
                     !.losses = GeometryLoss(pred, target, mask, input_coords) ]
    /\ UNCHANGED << synth, store, item >>
    /\ UNCHANGED trainerVars

\* t with the point q written to every position with mask = 0
FillPadding(t, mask, q) ==
    [ i \in 1..Len(t) |-> IF mask[i] = 0 THEN q ELSE t[i] ]

\* a second call with the same mask on tensors that agree with the first
\* call's on every position with mask = 1
CallLossPaddingChanged ==
    /\ net.op = "loss"
    /\ \E q \in Points, fp \in BOOLEAN, ft \in BOOLEAN, fi \in BOOLEAN :
          LET pred == IF fp THEN FillPadding(net.pred, net.mask, q) ELSE net.pred
              target == IF ft THEN FillPadding(net.target, net.mask, q) ELSE net.target
              input_coords == IF fi /\ net.input_coords # NoCoords
                              THEN FillPadding(net.input_coords, net.mask, q)
                              ELSE net.input_coords
          IN  net' = [ net EXCEPT !.op = "loss_again", !.pred = pred,
                         !.target = target, !.input_coords = input_coords,
                         !.losses = GeometryLoss(pred, target, net.mask, input_coords),
                         !.first = [ pred |-> net.pred, target |-> net.target,
                                     input_coords |-> net.input_coords,
                                     losses |-> net.losses ] ]
    /\ UNCHANGED << synth, store, item >>
    /\ UNCHANGED trainerVars

LossNext ==
    \/ CallLoss
    \/ CallLossPaddingChanged

LossSpec == LossInit /\ [][LossNext]_vars

(***************************************************************************)
(* Properties of the loss (checked under LossSpec)                         *)
(***************************************************************************)
LossCalled == net.op \in {"loss", "loss_again"}
ValidPositions == { i \in 1..Len(net.mask) : net.mask[i] = 1 }

\* C15: mse is the sum of the squared per-coordinate errors over the
\* positions with mask = 1, divided by (number of positions with mask = 1 +
\* epsilon).  Changing predicted or target values at positions with mask = 0
\* changes neither numerator nor denominator, and the all-zero mask gives
\* the finite value 0.
C15_MseOverValidOnly ==
    LossCalled =>
        LET n == Len(net.mask)
            err == Tensor([ i \in 1..n |->
                      IF i \in ValidPositions
                      THEN (net.pred[i][1] - net.target[i][1]) * (net.pred[i][1] - net.target[i][1])
                           + (net.pred[i][2] - net.target[i][2]) * (net.pred[i][2] - net.target[i][2])
                      ELSE 0 ], n)
        IN  /\ net.losses.mse.num = SumSeq(err)
            /\ net.losses.mse.count = Cardinality(ValidPositions)
            /\ ValidPositions = {} => net.losses.mse.num = 0
            /\ net.op = "loss_again" => net.losses.mse = net.first.losses.mse

\* a second call whose predicted and target values at a padded slot differ
\* from the first call's and from each other
C15_Witness ==
    /\ net.op = "loss_again"
    /\ ValidPositions # {}
    /\ net.losses.mse.num > 0
    /\ \E i \in 1..Len(net.mask) :
          /\ net.mask[i] = 0
          /\ net.pred[i] # net.first.pred[i]
          /\ net.target[i] # net.first.target[i]
    /\ \E i \in 1..Len(net.mask) :
          net.mask[i] = 0 /\ net.first.pred[i] # net.first.target[i]

\* a call with the all-zero mask whose predictions differ from the targets
C15_WitnessAllMasked ==
    /\ net.op = "loss"
    /\ ValidPositions = {}
    /\ net.pred # net.target
    /\ net.losses.mse.num = 0

\* C16: the smoothness term is masked like mse: for every mask with
\* 1 <= N < max_vertices, two calls that agree on the mask and on every
\* valid position but differ in the input coordinates or predicted offsets
\* at padded slots return the same smoothness.
C16_SmoothnessIgnoresPadding ==
    ( /\ net.op = "loss_again"
      /\ net.losses.has_smoothness
      /\ 1 <= Cardinality(ValidPositions)
      /\ Cardinality(ValidPositions) < Len(net.mask) )
    => net.losses.smoothness = net.first.losses.smoothness

(***************************************************************************)
(* Properties of the network (checked under NetSpec)                       *)
(***************************************************************************)
Forwarded == net.op \in {"forward", "forward_again"}

\* C12: GeometryGNN.forward returns an offset of exactly zero at every
\* position whose mask is 0, for every input and every mask; for the
\* all-zero mask the whole output is zero.
C12_MaskedOutputIsZero ==
    Forwarded =>
        \A i \in 1..Len(net.out) : net.mask[i] = 0 => net.out[i] = Zero2

\* a call with the all-zero mask on a network whose output layer has a
\* non-zero bias
C12_Witness ==
    /\ net.op = "forward"
    /\ \A i \in 1..Len(net.mask) : net.mask[i] = 0
    /\ net.model.params.out_b2 # Zero2
    /\ \E i \in 1..Len(net.x) : net.x[i] # Zero2

\* C13: in evaluation mode, two inputs with the same mask that agree on
\* every position with mask = 1 and differ only at positions with mask = 0
\* get equal offsets at every position with mask = 1.
C13_PaddingContentInvisible ==
    (net.op = "forward_again" /\ ~net.model.training) =>
        \A i \in 1..Len(net.out) : net.mask[i] = 1 => net.out[i] = net.first.out[i]

\* index of the ring neighbours of position i among n positions (1-based)
RingPrev(i, n) == IF i = 1 THEN n ELSE i - 1
RingNext(i, n) == IF i = n THEN 1 ELSE i + 1

\* C14: with a closed ring of N = max_vertices vertices (no padding) the
\* neighbour sum of every GraphConvLayer at index i is the hidden state at
\* (i-1) mod N plus the hidden state at (i+1) mod N and nothing else: the
\* first index pairs with the last and the second, the last with the one
\* before it and the first.
C14_RingNeighbours ==
    (Forwarded /\ \A i \in 1..Len(net.mask) : net.mask[i] = 1) =>
        \A k \in 1..Len(net.layers) :
            LET h == net.layers[k].h
                n == Len(h)
            IN  \A i \in 1..n :
                   net.layers[k].neighbor_sum[i]
                     = h[RingPrev(i, n)] + h[RingNext(i, n)]

\* an unpadded ring whose hidden states at the first index, its two
\* neighbours and one more index are told apart by the neighbour sum
C14_Witness ==
    /\ net.op = "forward"
    /\ \A i \in 1..Len(net.mask) : net.mask[i] = 1
    /\ LET h == net.layers[1].h
           n == Len(h)
       IN  /\ n >= 4
           /\ h[1] # h[n]
           /\ h[3] # h[n]
           /\ net.layers[1].neighbor_sum[1] = h[n] + h[2]
           /\ net.layers[1].neighbor_sum[1] # h[3] + h[2]
           /\ net.layers[1].neighbor_sum[n] = h[n - 1] + h[1]

(***************************************************************************)
(* Properties of the sample stores (checked under StoreSpec)               *)
(***************************************************************************)
GotItem == item.op = "getitem" /\ store.data # << >>
ItemSample == store.data[item.idx + 1]

\* C7: padding rule.  For a cached sample with N vertices, 3 <= N <=
\* max_vertices, __getitem__ of either store returns input, target and mask
\* of length exactly max_vertices; positions 1..N hold the sample's perturbed
\* coordinates and offsets with mask 1, positions N+1..max_vertices hold
\* coordinate 0, offset 0 and mask 0.
C7_PaddingRule ==
    GotItem =>
        LET sample == ItemSample
            N == sample["n_vertices"]
            mv == store.max_vertices
            e == item.value
        IN  (3 <= N /\ N <= mv) =>
              /\ ~e.error
              /\ Len(e.input) = mv /\ Len(e.target) = mv /\ Len(e.mask) = mv
              /\ e.n_vertices = N
              /\ \A j \in 1..N :
                    /\ e.input[j] = sample["noisy"][j]
                    /\ e.target[j] = sample["offsets"][j]
                    /\ e.mask[j] = 1
              /\ \A j \in (N + 1)..mv :
                    /\ e.input[j] = Zero2
                    /\ e.target[j] = Zero2
                    /\ e.mask[j] = 0

\* a synthetic topology-error sample shorter than max_vertices was returned
C7_Witness ==
    /\ GotItem
    /\ store.kind = "synthetic"
    /\ store.trace[item.idx + 1].mode # "noise"
    /\ 3 <= ItemSample["n_vertices"]
    /\ ItemSample["n_vertices"] < store.max_vertices
    /\ ~item.value.error
    /\ item.value.mask[store.max_vertices] = 0

\* the second element of an external-source store, shorter than max_vertices
C7_WitnessFgdb ==
    /\ GotItem
    /\ store.kind = "fgdb"
    /\ item.idx = 1
    /\ ItemSample["n_vertices"] < store.max_vertices
    /\ ~item.value.error

\* C8: every sample cached by the synthetic store has n_vertices <=
\* max_vertices, whatever max_vertices was configured, so __getitem__ returns
\* a padded element for every index below __len__.
C8_SyntheticWithinCapacity ==
    store.kind = "synthetic" =>
        /\ \A j \in 1..Len(store.data) :
              store.data[j]["n_vertices"] <= store.max_vertices
        /\ (item.op = "getitem" => ~item.value.error)

\* with max_vertices at least the largest generated geometry the synthetic
\* store does stay within capacity
SyntheticWithinLargeCapacity ==
    (store.kind = "synthetic" /\ store.max_vertices >= PolygonMaxVertices) =>
        /\ \A j \in 1..Len(store.data) :
              store.data[j]["n_vertices"] <= store.max_vertices
        /\ (item.op = "getitem" => ~item.value.error)

\* C11: when no geometry survived the filter of the external-source store,
\* __len__ returns the sentinel 1 and __getitem__ returns an element whose
\* input, target and mask are all zeros of length max_vertices, n_vertices 0;
\* when at least one survived, __len__ is the number of cached samples and
\* __getitem__ never returns the all-masked element.
C11_EmptyStoreSentinel ==
    (store.kind = "fgdb" /\ item.op # "none") =>
        LET mv == store.max_vertices
            e == item.value
        IN  IF store.data = << >>
            THEN /\ item.op = "len" => e = 1
                 /\ item.op = "getitem" =>
                       /\ ~e.error
                       /\ e.n_vertices = 0
                       /\ Len(e.input) = mv /\ Len(e.target) = mv /\ Len(e.mask) = mv
                       /\ \A j \in 1..mv :
                             e.input[j] = Zero2 /\ e.target[j] = Zero2 /\ e.mask[j] = 0
            ELSE /\ item.op = "len" => e = Len(store.data)
                 /\ item.op = "getitem" =>
                       /\ ~e.error
                       /\ e.n_vertices > 0
                       /\ \E j \in 1..mv : e.mask[j] = 1

\* every supplied geometry was filtered out and the sentinel element was read
C11_Witness ==
    /\ store.kind = "fgdb"
    /\ store.geometries # << >>
    /\ store.data = << >>
    /\ item.op = "getitem"
    /\ item.value.n_vertices = 0

\* __len__ of an external-source store that cached two samples
C11_WitnessNonEmpty ==
    /\ store.kind = "fgdb"
    /\ Len(store.data) = 2
    /\ item.op = "len"
    /\ item.value = 2

\* C25: every record cached by the external-source store can be consumed by
\* FGDBDatasetWrapper: __getitem__ succeeds and returns the padded element
\* of that record (perturbed coordinates and offsets at [0, N) with mask 1,
\* zeros with mask 0 at [N, max_vertices)).
C25_WrapperConsumesRecords ==
    item.op = "wrapper_getitem" =>
        /\ ~item.value.error
        /\ item.value = PaddedElement(item.sample, store.max_vertices)

\* the wrapper has failed with a KeyError on a record that fits max_vertices
WrapperKeyError ==
    /\ item.op = "wrapper_getitem"
    /\ item.part = "train"
    /\ item.sample["n_vertices"] <= store.max_vertices
    /\ item.value.error
    /\ item.value.raised = "KeyError"

\* every __getitem__ of a wrapper fails with a KeyError
WrapperAlwaysFails ==
    item.op = "wrapper_getitem" =>
        item.value.error /\ item.value.raised = "KeyError"

\* C21: once the constructor has returned, the cached list and the value of
\* __len__ never change under any interleaving of __len__ and __getitem__
\* calls of the fetchers, and two __getitem__ calls with the same index
\* return equal elements (the padding of the record cached at that index).
C21_CacheReadOnly ==
    item.op = "fetch" =>
        /\ store.data = item.built
        /\ item.counts \subseteq {StoreLen}
        /\ \A r \in item.returned :
              /\ r.idx < StoreLen
              /\ r.value = StoreGetItem(r.idx)
        /\ \A r1, r2 \in item.returned : r1.idx = r2.idx => r1.value = r2.value

\* both fetchers are inside __getitem__ of a store with two records, one of
\* them with the index the other call has already returned
C21_Witness ==
    /\ item.op = "fetch"
    /\ Len(store.data) = 2
    /\ item.pc["a"] = "padding"
    /\ item.pc["b"] = "padding"
    /\ item.idx["a"] # item.idx["b"]
    /\ item.counts = {2}
    /\ \E r \in item.returned : r.idx = item.idx["a"] /\ ~r.value.error

\* the supplied geometries already visited by _prepare_samples whose vertex
\* count N (closure point of a ring not counted) has 3 <= N <= max_vertices
Qualifying ==
    { k \in 1..(store.next - 1) :
        LET g == store.geometries[k]
            N == IF g.kind = "Polygon" THEN Len(g.coords) - 1 ELSE Len(g.coords)
        IN  3 <= N /\ N <= store.max_vertices }

\* C10: in the external-source store a supplied ring or chain is cached iff
\* 3 <= N <= max_vertices, in the order supplied; every cached sample was
\* produced by the uniform-noise mode, none by a topology-error mode.
C10_CachedIffWithinRange ==
    store.kind = "fgdb" =>
        /\ Len(store.trace) = Len(store.data)
        /\ Len(store.data) = Cardinality(Qualifying)
        /\ { store.trace[j].src : j \in 1..Len(store.trace) } = Qualifying
        /\ \A j \in 1..Len(store.trace) :
              /\ store.trace[j].mode = "noise"
              /\ store.data[j]["n_vertices"]
                   = CountVertices(store.geometries[store.trace[j].src])
              /\ \A i \in 1..(j - 1) : store.trace[i].src < store.trace[j].src

\* a constructed store that cached a geometry of exactly max_vertices
\* vertices and skipped one of max_vertices + 1
C10_Witness ==
    /\ store.kind = "fgdb"
    /\ Constructed
    /\ \E k \in 1..Len(store.geometries) :
          /\ CountVertices(store.geometries[k]) = store.max_vertices
          /\ \E j \in 1..Len(store.trace) : store.trace[j].src = k
    /\ \E k \in 1..Len(store.geometries) :
          /\ CountVertices(store.geometries[k]) = store.max_vertices + 1
          /\ \A j \in 1..Len(store.trace) : store.trace[j].src # k

\* a constructed store that skipped a two-point chain
C10_WitnessTooShort ==
    /\ store.kind = "fgdb"
    /\ Constructed
    /\ \E k \in 1..Len(store.geometries) :
          /\ CountVertices(store.geometries[k]) < 3
          /\ \A j \in 1..Len(store.trace) : store.trace[j].src # k

(***************************************************************************)
(* Properties of the Trainer (checked under Spec)                          *)
(***************************************************************************)
\* an epoch of the running train() has just completed
EpochEnd == pc \in {"train_epoch", "done"} /\ hist.order # << >>

\* the loss the claims call "tracked", from the histories
TrackedOfEpoch == IF hasVal THEN Last(val_history) ELSE Last(train_history)

\* C1: at the end of every epoch the tracked loss is the validation loss
\* when a validation loader was supplied and the training loss otherwise;
\* best_model.pt was written in that epoch iff the tracked loss is strictly
\* lower than best_loss as it stood before the epoch, and the checkpoint
\* written records the tracked loss as best_loss.
C1_BestOnImprovement ==
    EpochEnd =>
        /\ Last(hist.tracked) = TrackedOfEpoch
        /\ (BestModel \in hist.written)
              <=> (/\ TrackedOfEpoch # NaN
                   /\ hist.prev_best # NaN
                   /\ TrackedOfEpoch < hist.prev_best)
        /\ (BestModel \in hist.written) =>
              /\ IsComplete(BestModel)
              /\ files[BestModel].ckpt.best_loss = TrackedOfEpoch
              /\ best_loss = TrackedOfEpoch
        /\ (BestModel \notin hist.written) => best_loss = hist.prev_best

C1_Witness ==
    /\ EpochEnd
    /\ hasVal
    /\ BestModel \in hist.written
    /\ hist.prev_best # Inf
    /\ Last(train_history) # Last(val_history)

\* C2: model_epoch_<k>.pt is written at the end of epoch k (1-based) iff k
\* is divisible by 10, whether or not the loss improved; when the tracked
\* loss improves in such an epoch, best_model.pt and model_epoch_<k>.pt are
\* both written in that epoch, as two files.
C2_PeriodicEveryTenth ==
    /\ EpochEnd =>
          /\ (EpochFile(epoch) \in hist.written) <=> (epoch % 10 = 0)
          /\ \A f \in hist.written : f = BestModel \/ f = EpochFile(epoch)
          /\ (epoch % 10 = 0 /\ TrackedOfEpoch # NaN
                /\ TrackedOfEpoch < hist.prev_best) =>
                /\ IsComplete(BestModel)
                /\ IsComplete(EpochFile(epoch))
                /\ BestModel # EpochFile(epoch)
                /\ {BestModel, EpochFile(epoch)} \subseteq hist.written
    /\ \A f \in DOMAIN files : f[1] = "model_epoch" => f[2] > 0 /\ f[2] % 10 = 0

C2_Witness ==
    /\ EpochEnd
    /\ epoch = 10
    /\ EpochFile(10) \in hist.written
    /\ BestModel \in hist.written
    /\ hist.prev_best # Inf

\* the periodic checkpoint is also written in an epoch without improvement
C2_WitnessNoImprovement ==
    /\ EpochEnd
    /\ epoch = 10
    /\ hist.written = {EpochFile(10)}

AllFinite(s) == \A i \in 1..Len(s) : IsFinite(s[i])

\* C3: from a freshly constructed Trainer, after k >= 1 completed epochs
\* whose tracked losses are finite, best_model.pt exists, the best_loss it
\* records equals the trainer's best_loss and the minimum tracked loss over
\* epochs 1..k; after one epoch it is that epoch's tracked loss.
C3_BestIsMinimum ==
    (EpochEnd /\ hist.fresh /\ AllFinite(hist.tracked)) =>
        /\ Len(hist.tracked) = epoch
        /\ IsComplete(BestModel)
        /\ files[BestModel].ckpt.best_loss = best_loss
        /\ best_loss = MinOf(hist.tracked)
        /\ (epoch = 1 => best_loss = TrackedOfEpoch)

C3_Witness ==
    /\ EpochEnd
    /\ hist.fresh
    /\ AllFinite(hist.tracked)
    /\ epoch >= 2
    /\ hist.tracked[1] > MinOf(hist.tracked)
    /\ trainer = "second"

\* C4: a checkpoint save is whole-file atomic: the target path never holds
\* a partially written checkpoint (it holds no file, the previous complete
\* checkpoint or the new complete checkpoint).
C4_NoPartialCheckpoint == \A f \in DOMAIN files : files[f].complete

\* C5: loading a checkpoint restores the model parameters, best_loss,
\* train_history and val_history that the trainer had when the file was
\* saved.
C5_RoundTrip ==
    (pc = "idle" /\ hist.lastop[1] = "load") =>
        LET snap == hist.saved[hist.lastop[2]] IN
            /\ weights = snap.weights
            /\ best_loss = snap.best_loss
            /\ train_history = snap.train_history
            /\ val_history = snap.val_history

C5_Witness ==
    /\ pc = "idle"
    /\ hist.lastop[1] = "load"
    /\ trainer = "second"
    /\ Len(train_history) >= 2
    /\ Len(val_history) >= 2
    /\ train_history # val_history
    /\ weights > 0

ExpectedOrder ==
    IF hasVal
    THEN << "TrainEpoch", "ValidateEpoch", "CheckpointIfImproved",
            "CheckpointIfPeriodic" >>
    ELSE << "TrainEpoch", "CheckpointIfImproved", "CheckpointIfPeriodic" >>

IsPrefix(s, t) == Len(s) <= Len(t) /\ \A i \in 1..Len(s) : s[i] = t[i]

\* C6: within every epoch the steps run in the order TrainEpoch,
\* ValidateEpoch (only with a validation loader), improved-loss checkpoint,
\* periodic checkpoint; the next epoch's training starts, and Completed is
\* reached, only after the checkpoint decisions (and their saves) finished.
C6_StepOrder ==
    /\ IsPrefix(hist.order, ExpectedOrder)
    /\ (pc = "train_epoch" /\ epoch > 0) => hist.order = ExpectedOrder
    /\ (pc = "done") => (hist.order = ExpectedOrder /\ epoch = epochs)
    /\ (pc \in {"train_epoch", "done"}) =>
          (saving = NoName /\ \A f \in hist.written : IsComplete(f))
    /\ (pc = "validate") => (hasVal /\ hist.order = << "TrainEpoch" >>)
    /\ (pc = "ckpt_periodic") => Last(hist.order) = "CheckpointIfImproved"

C6_Witness ==
    /\ pc = "done"
    /\ hasVal
    /\ epoch >= 2
    /\ BestModel \in hist.written

\* C19: Trainer.validate performs no parameter update: the validation step
\* leaves model weights, optimizer state, best_loss and train_history
\* unchanged; val_history is extended only by the train loop at that step,
\* by exactly one entry per epoch.
C19_ValidateChangesNothing ==
    [][ /\ pc = "validate" =>
              /\ weights' = weights
              /\ opt_state' = opt_state
              /\ best_loss' = best_loss
              /\ train_history' = train_history
              /\ sched_steps' = sched_steps
              /\ val_history' = Append(val_history, val_metrics')
              /\ Len(val_history') = Len(val_history) + 1
        /\ (pc \in {"train_epoch", "ckpt_improved", "ckpt_periodic", "saving"})
              => val_history' = val_history ]_vars

\* the validation step of the second epoch has run
C19_Witness ==
    /\ pc = "ckpt_improved"
    /\ hasVal
    /\ Last(hist.order) = "ValidateEpoch"
    /\ epoch = 1
    /\ Len(val_history) = 2
    /\ weights = 2

\* C20: a NaN epoch loss does not stop the run: train() reaches its end
\* only after all epochs, the ones after a NaN epoch included; an epoch whose
\* tracked loss is NaN leaves best_loss unchanged and does not write
\* best_model.pt, while the periodic checkpoint of that epoch is written.
C20_NanEpochIgnored ==
    /\ (EpochEnd /\ TrackedOfEpoch = NaN) =>
          /\ best_loss = hist.prev_best
          /\ BestModel \notin hist.written
          /\ (epoch % CheckpointPeriod = 0) =>
                /\ EpochFile(epoch) \in hist.written
                /\ IsComplete(EpochFile(epoch))
    /\ (pc \in {"train_epoch", "validate", "ckpt_improved", "ckpt_periodic"})
          => epoch < epochs
    /\ (pc = "done" /\ hist.lastop[1] = "train") =>
          /\ epoch = epochs
          /\ Len(train_history) >= epochs

\* a run that completed although an epoch before the last had a NaN loss
C20_Witness ==
    /\ pc = "done"
    /\ hist.lastop[1] = "train"
    /\ epochs >= 2
    /\ hist.tracked[1] = NaN
    /\ Last(hist.tracked) # NaN
    /\ best_loss = Last(hist.tracked)

\* the tenth epoch had a NaN loss and wrote the periodic checkpoint only
C20_WitnessPeriodic ==
    /\ EpochEnd
    /\ epoch = CheckpointPeriod
    /\ TrackedOfEpoch = NaN
    /\ hist.written = {EpochFile(epoch)}


\* the entries a history has gained over the history h it started from
NewEntries(history, h) == SubSeq(history, Len(h) + 1, Len(history))

\* C22: in a train() run that follows a load_checkpoint of a checkpoint with
\* best_loss b and histories H, best_model.pt is written only in an epoch
\* whose tracked loss is strictly below b and below every earlier tracked
\* loss of the run, the histories are H followed by the run's entries in
\* epoch order, and a checkpoint written in the run records these histories.
C22_ResumeContinues ==
    (hist.resume.loaded /\ trained) =>
        LET H == hist.resume
            n == Len(hist.tracked)
            newT == NewEntries(train_history, H.train_history)
            newV == NewEntries(val_history, H.val_history)
        IN  /\ IsPrefix(H.train_history, train_history)
            /\ IsPrefix(H.val_history, val_history)
            /\ Len(newT) \in {n, n + 1}
            /\ IF hasVal
               THEN IsPrefix(hist.tracked, newV) /\ Len(newV) <= Len(newT)
               ELSE IsPrefix(hist.tracked, newT) /\ newV = << >>
            /\ EpochEnd =>
                  /\ Len(newT) = epoch
                  /\ hasVal => Len(newV) = epoch
                  /\ (BestModel \in hist.written) =>
                        /\ Last(hist.tracked) # NaN
                        /\ Last(hist.tracked) < H.best_loss
                        /\ \A k \in 1..(n - 1) :
                              hist.tracked[k] # NaN =>
                                  Last(hist.tracked) < hist.tracked[k]
            /\ \A f \in hist.written :
                  IsComplete(f) =>
                      /\ files[f].ckpt.train_history = train_history
                      /\ files[f].ckpt.val_history = val_history
                      /\ IsPrefix(H.train_history, files[f].ckpt.train_history)
                      /\ IsPrefix(H.val_history, files[f].ckpt.val_history)

\* a resumed run of two epochs after a checkpoint with a finite best_loss and
\* a non-empty history: the first epoch does not improve on it, the second
\* does and writes best_model.pt
C22_Witness ==
    /\ hist.resume.loaded
    /\ trained
    /\ EpochEnd
    /\ IsFinite(hist.resume.best_loss)
    /\ hist.resume.train_history # << >>
    /\ Len(hist.tracked) = 2
    /\ hist.tracked[1] = hist.resume.best_loss
    /\ BestModel \in hist.written
    /\ IsComplete(BestModel)
    /\ Len(files[BestModel].ckpt.train_history) = Len(hist.resume.train_history) + 2


\* train() has returned and nothing was called since
TrainReturned == pc = "done" /\ hist.lastop[1] = "train"
EpochsArg == hist.lastop[2][2]

\* what a finished run of e epochs leaves: e iterations, e tracked losses and,
\* in a Trainer that loaded nothing, e training entries and e or no
\* validation entries
RanEpochs(e) ==
    /\ epoch = e
    /\ Len(hist.tracked) = e
    /\ hist.fresh =>
          /\ Len(train_history) = e
          /\ Len(val_history) = IF hasVal THEN e ELSE 0

\* C23: train() called with an epochs argument E runs exactly E epochs, for
\* every E >= 0, and appends E entries to train_history (and to val_history
\* with a validation loader); config["epochs"] is used only when no epochs
\* argument is given.
C23_ExplicitEpochsHonoured ==
    TrainReturned =>
        /\ EpochsArg # NoArg => RanEpochs(EpochsArg)
        /\ EpochsArg = NoArg => RanEpochs(cfg_epochs)

\* the same for E >= 1 only
PositiveEpochsHonoured ==
    TrainReturned =>
        /\ (EpochsArg # NoArg /\ EpochsArg >= 1) => RanEpochs(EpochsArg)
        /\ EpochsArg = NoArg => RanEpochs(cfg_epochs)

\* train(epochs=0) has run config["epochs"] epochs
ZeroEpochsRanConfigured ==
    /\ TrainReturned
    /\ EpochsArg = 0
    /\ RanEpochs(cfg_epochs)
    /\ cfg_epochs > 0


\* C24: over any sequence of train() runs that write to one save directory,
\* each by a newly constructed Trainer, a complete best_model.pt is replaced
\* only by a state whose tracked loss is strictly lower than the best_loss
\* recorded in the file it replaces.
C24_BestModelOnlyLowered ==
    [][ (IsComplete(BestModel) /\ files'[BestModel] # files[BestModel]) =>
            /\ TrackedLoss # NaN
            /\ TrackedLoss < files[BestModel].ckpt.best_loss ]_vars

\* the same for the runs of a Trainer that wrote or loaded the file it
\* replaces: its best_loss is the one the file records
BestModelOnlyLoweredByOwner ==
    [][ (/\ IsComplete(BestModel)
         /\ files'[BestModel] # files[BestModel]
         /\ best_loss = files[BestModel].ckpt.best_loss) =>
            /\ TrackedLoss # NaN
            /\ TrackedLoss < files[BestModel].ckpt.best_loss ]_vars

\* the second Trainer is replacing the first Trainer's best_model.pt by a
\* checkpoint of a higher tracked loss
BestModelRaised ==
    /\ trainer = "second"
    /\ hist.fresh
    /\ pc = "saving"
    /\ saving = BestModel
    /\ BestModel \in DOMAIN hist.saved
    /\ IsFinite(best_loss)
    /\ hist.saved[BestModel].best_loss < best_loss

=============================================================================
